---- MODULE Spec2Model ----
(***************************************************************************)
(* Pi-hole Blocklist Optimizer: the conditional-fetch client               *)
(* (client.rs), the line extractor and validator (domain.rs), the          *)
(* whitelist matcher (whitelist.rs), the validator store (progress.rs),    *)
(* the descriptor loader (config.rs) and the run orchestration             *)
(* (pipeline.rs).                                                          *)
(*                                                                         *)
(* Text is modelled by TLA+ strings: Len, SubSeq, \o, Head and Tail act on *)
(* them character by character.  Option<T> is modelled by T or None.       *)
(***************************************************************************)
EXTENDS Integers, Sequences, FiniteSets, TLC

\* Option<String>: the string, or None.
None == "<none>"
\* Option<T> for any other T: <<>> is None and <<v>> is Some(v).
Nothing == <<>>
Some(v) == <<v>>
IsSome(o) == o # <<>>
Unwrap(o) == o[1]

(***************************************************************************)
(* Characters and strings                                                  *)
(***************************************************************************)
Ch(s, i) == SubSeq(s, i, i)

LowerLetters == "abcdefghijklmnopqrstuvwxyz"
UpperLetters == "ABCDEFGHIJKLMNOPQRSTUVWXYZ"
Digits == "0123456789"
\* The characters of the model's texts in ascending code-point order.
AsciiOrder == "\t !#$*-./0123456789?ABCDEFGHIJKLMNOPQRSTUVWXYZ^abcdefghijklmnopqrstuvwxyz|"

CharsOf(s) == {Ch(s, i) : i \in 1..Len(s)}

IndexIn(s, c) == IF \E i \in 1..Len(s) : Ch(s, i) = c
                 THEN CHOOSE i \in 1..Len(s) : Ch(s, i) = c
                 ELSE 0

DigitChars == CharsOf(Digits)
LowerChars == CharsOf(LowerLetters)
UpperChars == CharsOf(UpperLetters)
AlnumChars == LowerChars \cup UpperChars \cup DigitChars

IsDigit(c) == c \in DigitChars
IsAlnum(c) == c \in AlnumChars
IsSpace(c) == c \in {" ", "\t"}

LowerChar(c) == IF c \in UpperChars
                THEN Ch(LowerLetters, IndexIn(UpperLetters, c))
                ELSE c

RECURSIVE ToLower(_)
ToLower(s) == IF s = "" THEN "" ELSE LowerChar(Head(s)) \o ToLower(Tail(s))

StartsWith(s, p) == Len(s) >= Len(p) /\ SubSeq(s, 1, Len(p)) = p
EndsWith(s, p) == Len(s) >= Len(p) /\ SubSeq(s, Len(s) - Len(p) + 1, Len(s)) = p
Contains(s, c) == c \in CharsOf(s)

RECURSIVE TrimStart(_)
TrimStart(s) == IF s # "" /\ IsSpace(Head(s)) THEN TrimStart(Tail(s)) ELSE s

RECURSIVE TrimEnd(_)
TrimEnd(s) == IF s # "" /\ IsSpace(Ch(s, Len(s)))
              THEN TrimEnd(SubSeq(s, 1, Len(s) - 1))
              ELSE s

Trim(s) == TrimEnd(TrimStart(s))

RECURSIVE TrimEndMatches(_, _)
TrimEndMatches(s, c) == IF s # "" /\ Ch(s, Len(s)) = c
                        THEN TrimEndMatches(SubSeq(s, 1, Len(s) - 1), c)
                        ELSE s

\* Position of the first character of s that lies in cs, 0 if there is none.
FindFirst(s, cs) == IF \E i \in 1..Len(s) : Ch(s, i) \in cs
                    THEN CHOOSE i \in 1..Len(s) :
                            /\ Ch(s, i) \in cs
                            /\ \A j \in 1..(i - 1) : Ch(s, j) \notin cs
                    ELSE 0

\* The pieces of s between the occurrences of the character c.
RECURSIVE Split(_, _)
Split(s, c) ==
  LET At(p) == IF p = 0 THEN <<s>>
               ELSE <<SubSeq(s, 1, p - 1)>> \o Split(SubSeq(s, p + 1, Len(s)), c)
  IN At(FindFirst(s, {c}))

\* Byte-wise lexicographic order of strings (String's Ord).
RECURSIVE StrLess(_, _)
StrLess(a, b) ==
  IF b = "" THEN FALSE
  ELSE IF a = "" THEN TRUE
  ELSE IF Head(a) = Head(b) THEN StrLess(Tail(a), Tail(b))
  ELSE IndexIn(AsciiOrder, Head(a)) < IndexIn(AsciiOrder, Head(b))

RECURSIVE SortedSeq(_)
SortedSeq(S) ==
  LET From(m) == <<m>> \o SortedSeq(S \ {m})
  IN IF S = {} THEN <<>>
     ELSE From(CHOOSE x \in S : \A y \in S \ {x} : StrLess(x, y))

(***************************************************************************)
(* domain.rs                                                               *)
(***************************************************************************)
MAX_DOMAIN_LENGTH == 253
\* The bounds {0,61} of the interior of a label in DOMAIN_RE.
LABEL_INTERIOR_MAX == 61

\* A label whose last character is not looked at.
LabelMatchesOpenEnded(l, final) ==
  /\ Len(l) >= (IF final THEN 2 ELSE 1)
  /\ Len(l) <= LABEL_INTERIOR_MAX + 2
  /\ IsAlnum(Ch(l, 1))
  /\ \A i \in 1..Len(l) : IsAlnum(Ch(l, i)) \/ Ch(l, i) = "-"

\* One label of DOMAIN_RE.  A label before a dot is
\* [a-zA-Z0-9](?:[a-zA-Z0-9-]{0,61}[a-zA-Z0-9])? (1 to 63 characters); the
\* final label is [a-zA-Z0-9][a-zA-Z0-9-]{0,61}[a-zA-Z0-9] (2 to 63).
LabelMatches(l, final) ==
  /\ Len(l) >= (IF final THEN 2 ELSE 1)
  /\ Len(l) <= LABEL_INTERIOR_MAX + 2
  /\ IsAlnum(Ch(l, 1))
  /\ IsAlnum(Ch(l, Len(l)))
  /\ \A i \in 1..Len(l) : IsAlnum(Ch(l, i)) \/ Ch(l, i) = "-"

\* DOMAIN_RE.is_match: ^(?:label\.)+final$.  No label holds a dot, so the
\* dots of the text fix the labels.
DOMAIN_RE_is_match(s) ==
  LET Of(labels) ==
        /\ Len(labels) >= 2
        /\ \A i \in 1..(Len(labels) - 1) : LabelMatches(labels[i], FALSE)
        /\ LabelMatches(labels[Len(labels)], TRUE)
  IN Of(Split(s, "."))

\* A validation without the limit on the length.
ValidateWithoutLengthLimit(domain) ==
  IF domain = "" \/ domain = "localhost" \/ EndsWith(domain, ".local") THEN FALSE
  ELSE DOMAIN_RE_is_match(IF StartsWith(domain, "*.")
                          THEN SubSeq(domain, 3, Len(domain))
                          ELSE domain)

validate_domain(domain) ==
  IF domain = "" \/ domain = "localhost" \/ EndsWith(domain, ".local") THEN FALSE
  ELSE IF Len(domain) > MAX_DOMAIN_LENGTH THEN FALSE
  ELSE LET check == IF StartsWith(domain, "*.")
                    THEN SubSeq(domain, 3, Len(domain))
                    ELSE domain
       IN DOMAIN_RE_is_match(check)

normalize_domain(domain) == TrimEndMatches(ToLower(domain), ".")

\* A comment pattern that knows '#' only.
StripHashOnly(line) ==
  LET At(p) == IF p = 0 THEN line ELSE SubSeq(line, 1, p - 1)
  IN At(FindFirst(line, {"#"}))

\* COMMENT_RE.replace(line, ""): [#!].*$ removes the text from the first
\* '#' or '!' to the end of the line.
StripComment(line) ==
  LET At(p) == IF p = 0 THEN line ELSE SubSeq(line, 1, p - 1)
  IN At(FindFirst(line, {"#", "!"}))

\* Length of the run of digits at the start of s.
RECURSIVE DigitRun(_)
DigitRun(s) == IF s # "" /\ IsDigit(Head(s)) THEN 1 + DigitRun(Tail(s)) ELSE 0

\* \d{1,3} followed by the character `next` at the start of s: the rest of
\* s after them, or None.
Octet(s, next) ==
  LET Run(n) == IF n >= 1 /\ n <= 3 /\ n < Len(s) /\ Ch(s, n + 1) = next
                THEN SubSeq(s, n + 2, Len(s))
                ELSE None
  IN Run(DigitRun(s))

\* IP_DOMAIN_RE.captures: ^\s*\d{1,3}\.\d{1,3}\.\d{1,3}\.\d{1,3}\s+(\S+)$.
\* Group 1, or None when the line does not match.
IP_DOMAIN_RE_capture(line) ==
  LET \* \s+(\S+)$ on r4, the text after the fourth octet
      Group(r4, tok) == IF /\ Len(tok) < Len(r4)
                          /\ tok # ""
                          /\ \A i \in 1..Len(tok) : ~IsSpace(Ch(tok, i))
                       THEN tok
                       ELSE None
      AfterRun(s3, n4) == IF n4 >= 1 /\ n4 <= 3
                          THEN Group(SubSeq(s3, n4 + 1, Len(s3)),
                                     TrimStart(SubSeq(s3, n4 + 1, Len(s3))))
                          ELSE None
      Fourth(s3) == IF s3 = None THEN None ELSE AfterRun(s3, DigitRun(s3))
      Then(s) == IF s = None THEN None ELSE Octet(s, ".")
  IN Fourth(Then(Then(Octet(TrimStart(line), "."))))

\* ADBLOCK_RE.captures: ^\|\|(.+?)\^(?:\$.*)?$.  Group 1 is the shortest
\* non-empty text after "||" that is followed by '^' and then by the end of
\* the line or by '$'.
ADBLOCK_RE_capture(line) ==
  LET n == Len(line)
      ends == {k \in 4..n : /\ Ch(line, k) = "^"
                            /\ (k = n \/ Ch(line, k + 1) = "$")}
  IN IF StartsWith(line, "||") /\ ends # {}
     THEN SubSeq(line, 3, (CHOOSE k \in ends : \A j \in ends : k <= j) - 1)
     ELSE None

extract_domain_from_line(raw) ==
  LET Plain(line) ==
        IF ~Contains(line, " ") /\ ~Contains(line, "/") /\ ~Contains(line, "?")
        THEN line
        ELSE None
      Adblock(line, caps) == IF caps # None THEN caps ELSE Plain(line)
      Ip(line, caps) == IF caps # None THEN caps
                        ELSE Adblock(line, ADBLOCK_RE_capture(line))
      Stripped(line) == IF line = "" THEN None
                        ELSE Ip(line, IP_DOMAIN_RE_capture(line))
      Trimmed(t) == IF t = "" \/ StartsWith(t, "#") \/ StartsWith(t, "!") THEN None
                    ELSE Stripped(Trim(StripComment(t)))
  IN Trimmed(Trim(raw))

(***************************************************************************)
(* The regex crate, for the patterns of the model's whitelist sources:     *)
(* literal characters, '.', the escapes \d \w \s and escaped punctuation,  *)
(* the anchors ^ and $, and the repetitions * + ?.  A compiled pattern is  *)
(* a sequence of tokens; Regex::new yields Compiled(tokens) for Ok and     *)
(* CompileError for Err.                                                   *)
(* A group, (..), (?:..), (?P<name>..) or (?<name>..), is compiled when it *)
(* carries no repetition operator; a group left open, a ')' without its    *)
(* '(' and a group name used twice make Regex::new fail.  Flag, class,     *)
(* alternation and counted-repetition syntax is compiled only as far as    *)
(* rejecting it; the sources of the model do not use it.                   *)
(***************************************************************************)
CompileError == [ok |-> FALSE, toks |-> <<>>]
Compiled(toks) == [ok |-> TRUE, toks |-> toks]

Tok(kind, c, q) == [kind |-> kind, c |-> c, q |-> q]

ZeroWidth(t) == t.kind \in {"bol", "eol"}

\* The names of the capture groups of a compiled pattern.
GroupNames(toks) ==
  { toks[k].c : k \in { j \in 1..Len(toks) : toks[j].kind = "open" /\ toks[j].c # "" } }

\* The '(' at position i of p: the name of the group it opens ("" when it
\* has none) and the position after the opening, or ok = FALSE when what
\* follows the '(' does not open a group.
GroupOpen(p, i) ==
  LET rest == SubSeq(p, i, Len(p))
      Named(from) ==
        LET close == FindFirst(SubSeq(p, from, Len(p)), {">"})
            name == SubSeq(p, from, from + close - 2)
        IN IF close <= 1 THEN [ok |-> FALSE, name |-> "", next |-> i]
           ELSE [ok |-> /\ ~IsDigit(Ch(name, 1))
                        /\ \A k \in 1..Len(name) : IsAlnum(Ch(name, k)) \/ Ch(name, k) = "_",
                 name |-> name, next |-> from + close]
  IN IF StartsWith(rest, "(?P<") THEN Named(i + 4)
     ELSE IF StartsWith(rest, "(?<") THEN Named(i + 3)
     ELSE IF StartsWith(rest, "(?:") THEN [ok |-> TRUE, name |-> "", next |-> i + 3]
     ELSE IF StartsWith(rest, "(?") THEN [ok |-> FALSE, name |-> "", next |-> i]
     ELSE [ok |-> TRUE, name |-> "", next |-> i + 1]

\* The groups of a token sequence opened and not yet closed.
GroupDepth(toks) ==
  Cardinality({k \in 1..Len(toks) : toks[k].kind = "open"})
    - Cardinality({k \in 1..Len(toks) : toks[k].kind = "close"})

\* A repetition operator applied to a token that already carries one.
Requantify(q, op) == IF op = "?" THEN (IF q = "+" THEN "*" ELSE q)
                     ELSE IF q = "+" /\ op = "+" THEN "+"
                     ELSE "*"

RECURSIVE ParseRegex(_, _, _)
ParseRegex(p, i, acc) ==
  IF i > Len(p) THEN (IF GroupDepth(acc) = 0 THEN Compiled(acc) ELSE CompileError)
  ELSE LET c == Ch(p, i)
       IN IF c = "\\"
          THEN IF i = Len(p) THEN CompileError
               ELSE LET e == Ch(p, i + 1)
                    IN IF e = "d" THEN ParseRegex(p, i + 2, Append(acc, Tok("digit", e, "1")))
                       ELSE IF e = "w" THEN ParseRegex(p, i + 2, Append(acc, Tok("word", e, "1")))
                       ELSE IF e = "s" THEN ParseRegex(p, i + 2, Append(acc, Tok("space", e, "1")))
                       ELSE IF IsAlnum(e) THEN CompileError
                       ELSE ParseRegex(p, i + 2, Append(acc, Tok("lit", e, "1")))
          ELSE IF c \in {"*", "+", "?"}
          THEN IF acc = <<>> \/ acc[Len(acc)].kind \in {"open", "close"} THEN CompileError
               ELSE LET last == acc[Len(acc)]
                        q == IF last.q = "1" THEN c ELSE Requantify(last.q, c)
                    IN ParseRegex(p, i + 1, [acc EXCEPT ![Len(acc)].q = q])
          ELSE IF c = "("
          THEN LET Open(g) ==
                     IF ~g.ok \/ (g.name # "" /\ \E k \in 1..Len(acc) :
                                     acc[k].kind = "open" /\ acc[k].c = g.name)
                     THEN CompileError
                     ELSE ParseRegex(p, g.next, Append(acc, Tok("open", g.name, "1")))
               IN Open(GroupOpen(p, i))
          ELSE IF c = ")"
          THEN IF GroupDepth(acc) = 0 THEN CompileError
               ELSE ParseRegex(p, i + 1, Append(acc, Tok("close", "", "1")))
          ELSE IF c \in {"[", "]", "{", "}", "|"} THEN CompileError
          ELSE IF c = "." THEN ParseRegex(p, i + 1, Append(acc, Tok("any", c, "1")))
          ELSE IF c = "^" THEN ParseRegex(p, i + 1, Append(acc, Tok("bol", c, "1")))
          ELSE IF c = "$" THEN ParseRegex(p, i + 1, Append(acc, Tok("eol", c, "1")))
          ELSE ParseRegex(p, i + 1, Append(acc, Tok("lit", c, "1")))

\* Regex::new(pattern).
RegexNew(pattern) == ParseRegex(pattern, 1, <<>>)

AtomMatches(t, c) ==
  CASE t.kind = "lit" -> c = t.c
    [] t.kind = "any" -> TRUE
    [] t.kind = "digit" -> IsDigit(c)
    [] t.kind = "word" -> IsAlnum(c) \/ c = "_"
    [] t.kind = "space" -> IsSpace(c)
    [] OTHER -> FALSE

\* Whether the tokens from the k-th on match s at position pos.
RECURSIVE MatchAt(_, _, _, _)
MatchAt(toks, k, s, pos) ==
  IF k > Len(toks) THEN TRUE
  ELSE LET t == toks[k]
           here == IF t.kind = "bol" THEN pos = 1 ELSE pos = Len(s) + 1
           run(n) == \A j \in pos..(pos + n - 1) : AtomMatches(t, Ch(s, j))
           most == Len(s) - pos + 1
       IN IF t.kind \in {"open", "close"}
          THEN MatchAt(toks, k + 1, s, pos)
          ELSE IF ZeroWidth(t)
          THEN IF t.q \in {"1", "+"}
               THEN here /\ MatchAt(toks, k + 1, s, pos)
               ELSE MatchAt(toks, k + 1, s, pos)
          ELSE CASE t.q = "1" -> most >= 1 /\ run(1) /\ MatchAt(toks, k + 1, s, pos + 1)
                 [] t.q = "?" -> \E n \in 0..1 :
                                   n <= most /\ run(n) /\ MatchAt(toks, k + 1, s, pos + n)
                 [] t.q = "*" -> \E n \in 0..most :
                                   run(n) /\ MatchAt(toks, k + 1, s, pos + n)
                 [] t.q = "+" -> \E n \in 1..most :
                                   run(n) /\ MatchAt(toks, k + 1, s, pos + n)

\* Regex::is_match: a match starting anywhere in s.
RegexIsMatch(toks, s) == \E pos \in 1..(Len(s) + 1) : MatchAt(toks, 1, s, pos)

(***************************************************************************)
(* whitelist.rs                                                            *)
(***************************************************************************)
\* str::replace(c, r) for a one-character pattern c.
RECURSIVE ReplaceChar(_, _, _)
ReplaceChar(s, c, r) ==
  IF s = "" THEN ""
  ELSE (IF Head(s) = c THEN r ELSE Head(s)) \o ReplaceChar(Tail(s), c, r)

\* format!("^{}$", line.replace('.', r"\.").replace('*', ".*"))
WildcardToRegex(line) ==
  "^" \o ReplaceChar(ReplaceChar(line, ".", "\\."), "*", ".*") \o "$"

\* The WhitelistManager before any line is read.
EmptyManager(enable_subdomain) ==
  [exact_domains |-> {}, combined_pattern |-> Nothing, enable_subdomain |-> enable_subdomain,
   all_patterns |-> <<>>]

\* One iteration of the loop over the lines of the whitelist source; m
\* carries the manager and the local all_patterns (compiled fragments).
LoadLine(m, raw) ==
  LET Pattern(re) == IF re.ok
                     THEN [m EXCEPT !.all_patterns = Append(@, re.toks)]
                     ELSE m
      Exact(domain) == IF validate_domain(domain)
                       THEN [m EXCEPT !.exact_domains = @ \cup {domain}]
                       ELSE m
      Line(line) ==
        IF line = "" THEN m
        ELSE IF StartsWith(line, "/") /\ EndsWith(line, "/") /\ Len(line) > 2
        THEN Pattern(RegexNew(SubSeq(line, 2, Len(line) - 1)))
        ELSE IF Contains(line, "*")
        THEN Pattern(RegexNew(WildcardToRegex(line)))
        ELSE Exact(normalize_domain(line))
      \* line.find('#'): the text before the first '#'
      At(p) == Line(Trim(IF p = 0 THEN raw ELSE SubSeq(raw, 1, p - 1)))
  IN At(FindFirst(raw, {"#"}))

RECURSIVE LoadLines(_, _)
LoadLines(m, lines) ==
  IF lines = <<>> THEN m ELSE LoadLines(LoadLine(m, Head(lines)), Tail(lines))

\* Regex::new(&all_patterns.join("|")): the alternation (?:f1)|(?:f2)|... of
\* fragments that each compiled on its own, held as the sequence of its
\* alternatives.  It fails to compile when two fragments name a capture
\* group alike.
CombinedNew(all_patterns) ==
  IF \E j, k \in 1..Len(all_patterns) :
       j < k /\ GroupNames(all_patterns[j]) \cap GroupNames(all_patterns[k]) # {}
  THEN CompileError
  ELSE Compiled(all_patterns)

\* WhitelistManager::load.  source is Nothing when the whitelist file does
\* not exist (or cannot be read), else Some(its lines).
WhitelistLoad(source, enable_subdomain) ==
  LET Built(re) == IF re.ok THEN Some(re.toks) ELSE Nothing
      Loaded(m) ==
        [exact_domains |-> m.exact_domains,
         combined_pattern |-> IF m.all_patterns # <<>> THEN Built(CombinedNew(m.all_patterns))
                              ELSE Nothing,
         enable_subdomain |-> enable_subdomain]
  IN Loaded(IF ~IsSome(source) THEN EmptyManager(enable_subdomain)
            ELSE LoadLines(EmptyManager(enable_subdomain), Unwrap(source)))

\* Regex::is_match of the combined alternation.
CombinedIsMatch(re, domain) == \E k \in 1..Len(re) : RegexIsMatch(re[k], domain)

\* A suffix test that ignores the label boundary.
EndsWithExact(wl, rest) ==
  \E e \in wl.exact_domains : Len(rest) > Len(e) /\ EndsWith(rest, e)

\* WhitelistManager::check_subdomain: rest is domain[start..].
RECURSIVE check_subdomain(_, _)
check_subdomain(wl, rest) ==
  LET Suffix(suffix) == IF suffix \in wl.exact_domains THEN TRUE
                        ELSE check_subdomain(wl, suffix)
      At(dot_pos) == IF dot_pos = 0 THEN FALSE
                     ELSE Suffix(SubSeq(rest, dot_pos + 1, Len(rest)))
  IN At(FindFirst(rest, {"."}))

\* A loop body that never consults the combined pattern.
MatchedWithoutPattern(wl, domain) ==
  \/ domain \in wl.exact_domains
  \/ wl.enable_subdomain /\ check_subdomain(wl, domain)

\* The body of filter_domains' loop that decides `matched` for one domain.
Matched(wl, domain) ==
  LET \* if !matched { if let Some(ref re) = self.combined_pattern { .. } }
      Pattern(matched) == IF ~matched /\ IsSome(wl.combined_pattern)
                          THEN CombinedIsMatch(Unwrap(wl.combined_pattern), domain)
                          ELSE matched
      \* if !matched && self.enable_subdomain { matched = check_subdomain(..) }
      Subdomain(matched) == Pattern(IF ~matched /\ wl.enable_subdomain
                                    THEN check_subdomain(wl, domain)
                                    ELSE matched)
  IN Subdomain(domain \in wl.exact_domains)

\* filter_domains' loop over the (unordered) input set.
RECURSIVE FilterLoop(_, _, _, _)
FilterLoop(wl, todo, filtered, removed) ==
  IF todo = {} THEN [filtered |-> filtered, removed |-> removed]
  ELSE LET domain == CHOOSE d \in todo : TRUE
       IN IF Matched(wl, domain)
          THEN FilterLoop(wl, todo \ {domain}, filtered, removed + 1)
          ELSE FilterLoop(wl, todo \ {domain}, filtered \cup {domain}, removed)

filter_domains(wl, domains) ==
  IF wl.exact_domains = {} /\ ~IsSome(wl.combined_pattern)
  THEN [filtered |-> domains, removed |-> 0]
  ELSE FilterLoop(wl, domains, {}, 0)

(***************************************************************************)
(* client.rs                                                               *)
(***************************************************************************)
MAX_RETRIES == 3
RETRY_BACKOFF_MS == 500
RETRY_STATUS_CODES == {429, 500, 502, 503, 504}

\* StatusCode::is_success
is_success(status) == status >= 200 /\ status <= 299

RECURSIVE Pow2(_)
Pow2(n) == IF n = 0 THEN 1 ELSE 2 * Pow2(n - 1)

\* What request.send().await yields: Err(e), or Ok(response) with the
\* response's status, its ETag and Last-Modified headers (None: the header
\* is absent) and what response.bytes().await will yield (Some(the body's
\* lines), or BodyError for Err).  NoResponse: no request was sent yet.
BodyError == Nothing
NotVisibleAscii == "<header value that to_str() rejects>"
NetworkError == [ok |-> FALSE, status |-> 0, etag |-> None, last_modified |-> None,
                 body |-> Nothing]
NoResponse == [ok |-> FALSE, status |-> -1, etag |-> None, last_modified |-> None,
               body |-> Nothing]
HttpResponse(status, etag, last_modified, body) ==
  [ok |-> TRUE, status |-> status, etag |-> etag, last_modified |-> last_modified,
   body |-> body]

\* Result<DownloadResult>; NoResult while the call has not returned.
NoResult ==
  [kind |-> "None", content |-> Nothing, etag |-> None, last_modified |-> None,
   was_modified |-> FALSE, error |-> None]
OkResult(content, etag, last_modified, was_modified) ==
  [kind |-> "Ok", content |-> content, etag |-> etag, last_modified |-> last_modified,
   was_modified |-> was_modified, error |-> None]
ErrResult(error) ==
  [kind |-> "Err", content |-> Nothing, etag |-> None, last_modified |-> None,
   was_modified |-> FALSE, error |-> error]

\* headers().get(..).and_then(|v| v.to_str().ok())
HeaderStr(v) == IF v = NotVisibleAscii THEN None ELSE v

\* One download call: its arguments, the local `attempts`, the position
\* in the loop (send: at request.send().await; sleep: at
\* tokio::time::sleep(..).await; returned), the value returned, and a
\* record of what the call did: the response of the last attempt, the
\* number of requests sent, the delays slept.
NewCall(url, etag, last_modified) ==
  [pc |-> "send", url |-> url, etag |-> etag, last_modified |-> last_modified,
   attempts |-> 0, resp |-> NoResponse, requests |-> 0, delays |-> <<>>,
   result |-> NoResult]

Return(call, result) == [call EXCEPT !.pc = "returned", !.result = result]

\* A backoff whose first delay is already doubled.
BackoffDoubledAtOnce(call) ==
  [call EXCEPT !.attempts = @ + 1,
               !.delays = Append(@, RETRY_BACKOFF_MS * Pow2(call.attempts + 1)),
               !.pc = "sleep"]

\* attempts += 1; delay = RETRY_BACKOFF_MS * 2u64.pow(attempts - 1); sleep
Backoff(call) ==
  LET attempts == call.attempts + 1
      delay == RETRY_BACKOFF_MS * Pow2(attempts - 1)
  IN [call EXCEPT !.attempts = attempts, !.delays = Append(@, delay), !.pc = "sleep"]

\* A 304 that answers with the response's headers.
NotModifiedFromHeaders(call, resp) ==
  OkResult(Nothing, HeaderStr(resp.etag), HeaderStr(resp.last_modified), FALSE)

\* The DownloadResult returned for status == StatusCode::NOT_MODIFIED.
NotModified(call, resp) == OkResult(Nothing, call.etag, call.last_modified, FALSE)

\* A retry of every unsuccessful status.
RetriesAnyFailure(call, status) == ~is_success(status) /\ call.attempts < MAX_RETRIES

\* RETRY_STATUS_CODES.contains(&status.as_u16()) && attempts < MAX_RETRIES
RetriesStatus(call, status) ==
  status \in RETRY_STATUS_CODES /\ call.attempts < MAX_RETRIES

\* A success that keeps the request's validator where the response has none.
SuccessKeepsOldValidator(call, resp) ==
  IF resp.body = BodyError
  THEN ErrResult("error decoding response body")
  ELSE OkResult(resp.body,
                IF HeaderStr(resp.etag) = None THEN call.etag ELSE HeaderStr(resp.etag),
                IF HeaderStr(resp.last_modified) = None THEN call.last_modified
                ELSE HeaderStr(resp.last_modified),
                TRUE)

\* What a successful status returns: new_etag and new_last_modified from the
\* response's headers, then response.bytes().await? and the DownloadResult.
Success(call, resp) ==
  IF resp.body = BodyError
  THEN ErrResult("error decoding response body")
  ELSE OkResult(resp.body, HeaderStr(resp.etag), HeaderStr(resp.last_modified), TRUE)

\* The Ok(response) arm of the match.
OnResponse(call, resp) ==
  IF resp.status = 304
  THEN Return(call, NotModified(call, resp))
  ELSE IF RetriesStatus(call, resp.status)
  THEN Backoff(call)
  ELSE IF ~is_success(resp.status)
  THEN Return(call, ErrResult("HTTP " \o ToString(resp.status) \o " for " \o call.url))
  ELSE Return(call, Success(call, resp))

\* A budget that allows one retry more.
RetriesErrorOnceMore(call) == call.attempts <= MAX_RETRIES

\* if attempts < MAX_RETRIES, in the Err(e) arm
RetriesError(call) == call.attempts < MAX_RETRIES

\* The Err(e) arm of the match.
OnSendError(call) ==
  IF RetriesError(call)
  THEN Backoff(call)
  ELSE Return(call, ErrResult("error sending request"))

\* One iteration of download's loop from request.send() to the next
\* await or to the return.
DownloadStep(call, resp) ==
  LET sent == [call EXCEPT !.requests = @ + 1, !.resp = resp]
  IN IF resp.ok THEN OnResponse(sent, resp) ELSE OnSendError(sent)

\* The sleep is over: the loop begins its next iteration.
WakeStep(call) == [call EXCEPT !.pc = "send"]

(***************************************************************************)
(* Maps (HashMap) are functions; the empty map is <<>>.                    *)
(***************************************************************************)
MapInsert(m, k, v) == [x \in DOMAIN m \cup {k} |-> IF x = k THEN v ELSE m[x]]
MapGet(m, k) == IF k \in DOMAIN m THEN Some(m[k]) ELSE Nothing

(***************************************************************************)
(* progress.rs                                                             *)
(***************************************************************************)
ProgressEntry(etag, last_modified, domain_count, last_download) ==
  [etag |-> etag, last_modified |-> last_modified, domain_count |-> domain_count,
   last_download |-> last_download]

\* An update that keeps no entry but the one it writes.
ProgressReplace(entries, name, etag, last_modified, domain_count, now) ==
  MapInsert(<<>>, name, ProgressEntry(etag, last_modified, domain_count, now))

\* ProgressTracker::update without its save(): the new entries.
ProgressUpdate(entries, name, etag, last_modified, domain_count, now) ==
  MapInsert(entries, name, ProgressEntry(etag, last_modified, domain_count, now))

(***************************************************************************)
(* config.rs                                                               *)
(***************************************************************************)
Blocklist(url, name, category, etag, last_modified) ==
  [url |-> url, name |-> name, category |-> category, etag |-> etag,
   last_modified |-> last_modified]

\* Url::parse(url).is_ok(), for the URLs of the model's configuration
\* files: an absolute URL begins with a scheme, a letter followed by
\* letters, digits, '+', '-' or '.', and a ':'.
UrlParses(url) ==
  LET At(p) ==
        /\ p > 1
        /\ Head(url) \in LowerChars \cup UpperChars
        /\ \A i \in 1..(p - 1) : IsAlnum(Ch(url, i)) \/ Ch(url, i) \in {"+", "-", "."}
  IN At(FindFirst(url, {":"}))

\* One iteration of load_blocklists' loop over the lines.
LoadBlocklistLine(blocklists, raw, entries) ==
  LET Entry(url, name, category, cached) ==
        IF ~UrlParses(url) THEN blocklists
        ELSE Append(blocklists,
                    Blocklist(url, name, category,
                              IF IsSome(cached) THEN Unwrap(cached).etag ELSE None,
                              IF IsSome(cached) THEN Unwrap(cached).last_modified
                              ELSE None))
      Named(url, name, category) == Entry(url, name, category, MapGet(entries, name))
      Parts(parts) == IF Len(parts) # 3 THEN blocklists
                      ELSE Named(Trim(parts[1]), Trim(parts[2]), Trim(parts[3]))
      Line(line) == IF line = "" \/ StartsWith(line, "#") THEN blocklists
                    ELSE Parts(Split(line, "|"))
  IN Line(Trim(raw))

RECURSIVE LoadBlocklistLines(_, _, _)
LoadBlocklistLines(blocklists, lines, entries) ==
  IF lines = <<>> THEN blocklists
  ELSE LoadBlocklistLines(LoadBlocklistLine(blocklists, Head(lines), entries),
                          Tail(lines), entries)

\* load_blocklists: content is Nothing when the file does not exist, else
\* Some(its lines).  Yields Some(blocklists) for Ok and Nothing for Err.
load_blocklists(content, entries) ==
  IF ~IsSome(content) THEN Nothing
  ELSE LET Loaded(blocklists) == IF blocklists = <<>> THEN Nothing ELSE Some(blocklists)
       IN Loaded(LoadBlocklistLines(<<>>, Unwrap(content), entries))

(***************************************************************************)
(* pipeline.rs: the file formats                                           *)
(***************************************************************************)
RECURSIVE ProcessLines(_, _)
ProcessLines(lines, domains) ==
  IF lines = <<>> THEN domains
  ELSE LET Line(domain) ==
             IF domain # None /\ validate_domain(domain)
             THEN ProcessLines(Tail(lines), domains \cup {normalize_domain(domain)})
             ELSE ProcessLines(Tail(lines), domains)
       IN Line(extract_domain_from_line(Head(lines)))

\* process_content: the content as the lines text.lines() yields.
process_content(content) == ProcessLines(content, {})

\* chrono::Local::now() as formatted in a file's header.
NowText == "2025-01-01 00:00:00"

\* The lines write_blocklist_file writes; label is None or the label.
BlocklistFileLines(domains, label) ==
  LET Lines(sorted) ==
        << "# Pi-hole " \o (IF label = None THEN "Optimized" ELSE label) \o " Blocklist",
           "# Last updated: " \o NowText,
           "# Total domains: " \o ToString(Len(sorted)),
           "" >>
        \o [i \in 1..Len(sorted) |-> "0.0.0.0 " \o sorted[i]]
  IN Lines(SortedSeq(domains))

UpperChar(c) == IF c \in LowerChars
                THEN Ch(UpperLetters, IndexIn(LowerLetters, c))
                ELSE c

capitalize(s) == IF s = "" THEN "" ELSE UpperChar(Head(s)) \o Tail(s)

(***************************************************************************)
(* whitelist.rs: generate_report                                           *)
(***************************************************************************)
REPORT_TAKE == 100

\* One group of the report: its title line, at most REPORT_TAKE entries,
\* the "... and n more" line and a blank line; nothing for an empty group.
ReportGroup(title, S) ==
  LET Group(sorted, n) ==
        IF n = 0 THEN <<>>
        ELSE << title \o ": " \o ToString(n) >>
             \o [i \in 1..(IF n > REPORT_TAKE THEN REPORT_TAKE ELSE n) |->
                   "  - " \o sorted[i]]
             \o (IF n > REPORT_TAKE
                 THEN << "  ... and " \o ToString(n - REPORT_TAKE) \o " more" >>
                 ELSE <<>>)
             \o << "" >>
  IN Group(SortedSeq(S), Cardinality(S))

\* The lines generate_report writes.
ReportLines(wl, removed_domains) ==
  LET Groups(exact, subdomain) ==
        << "Whitelist Report", "", "Generated: " \o NowText, "",
           "Total Domains Removed: " \o ToString(Cardinality(removed_domains)), "" >>
        \o ReportGroup("Exact Matches", exact)
        \o ReportGroup("Subdomain Matches", subdomain)
        \o ReportGroup("Pattern Matches (wildcard/regex)",
                       (removed_domains \ exact) \ subdomain)
      Exact(exact) == Groups(exact, {d \in removed_domains \ exact :
                                       wl.enable_subdomain /\ check_subdomain(wl, d)})
  IN Exact({d \in removed_domains : d \in wl.exact_domains})

(***************************************************************************)
(* main.rs: the command line and the AppConfig made from it                *)
(***************************************************************************)
THREADS_MIN == 1
THREADS_MAX == 16

Clamp(n, lo, hi) == IF n < lo THEN lo ELSE IF n > hi THEN hi ELSE n

Cli(config, whitelist, threads, flags) ==
  [config |-> config, whitelist |-> whitelist, threads |-> threads,
   skip_download |-> "skip_download" \in flags,
   skip_optimize |-> "skip_optimize" \in flags,
   no_incremental |-> "no_incremental" \in flags,
   dry_run |-> "dry_run" \in flags,
   no_whitelist_subdomain |-> "no_whitelist_subdomain" \in flags,
   whitelist_report |-> "whitelist_report" \in flags]

AppConfigOf(cli) ==
  [config_file |-> cli.config,
   whitelist_file |-> cli.whitelist,
   threads |-> Clamp(cli.threads, THREADS_MIN, THREADS_MAX),
   skip_download |-> cli.skip_download,
   skip_optimize |-> cli.skip_optimize,
   incremental |-> ~cli.no_incremental,
   dry_run |-> cli.dry_run,
   whitelist_subdomain |-> ~cli.no_whitelist_subdomain,
   whitelist_report |-> cli.whitelist_report]

(***************************************************************************)
(* The environment of the runs: the command lines given, the               *)
(* configuration and whitelist files on disk, and what the servers answer. *)
(***************************************************************************)
MaxRuns == 2
\* Faults of the environment in one behaviour: transient network failures
\* and failed file operations.
MaxFaults == 1

CliPool ==
  { Cli("blocklists.conf", "whitelist.txt", 2, {}),
    Cli("blocklists.conf", "whitelist.txt", 2, {"dry_run"}),
    Cli("blocklists.conf", "whitelist.txt", 2, {"skip_download", "whitelist_report"}),
    Cli("nsfw.conf", "whitelist.txt", 0, {"no_incremental", "no_whitelist_subdomain"}),
    Cli("dup.conf", "none.txt", 40, {"skip_optimize"}),
    Cli("empty.conf", "none.txt", 2, {}),
    Cli("missing.conf", "none.txt", 2, {}) }

ConfigFile(path) ==
  CASE path = "blocklists.conf" ->
         Some(<< "# lists", "http://h/ads|L1|ads", "no separators",
                 " http://h/trk | L2 | trackers " >>)
    [] path = "nsfw.conf" ->
         Some(<< "http://h/ads|L1|all_domains", "h/x|L9|ads", "http://h/x|L3|nsfw" >>)
    [] path = "dup.conf" ->
         Some(<< "http://h/ads|L1|ads", "http://h/trk|L1|ads" >>)
    [] path = "empty.conf" -> Some(<< "# no lists", "" >>)
    [] OTHER -> Nothing

WhitelistFile(path) ==
  CASE path = "whitelist.txt" ->
         Some(<< "# allowed", "B.com", "/(/", "*.cdn.com  # wildcard" >>)
    [] OTHER -> Nothing

ServerBodies(url) ==
  CASE url = "http://h/ads" ->
         { << "# ads", "0.0.0.0 a.com", "||b.com^$third-party" >>,
           << "A.com.", "Foo.LOCAL", "sub.b.com # x" >> }
    [] url = "http://h/trk" ->
         { << "c.com", "127.0.0.1   b.com", "img.cdn.com", "not a domain" >> }
    [] OTHER ->
         { << "x.com", "a.com" >> }

\* The (ETag, Last-Modified) pairs a server sends with a body.
ServerValidators == { <<None, None>>, <<"e1", "m1">> }

\* The transient failures of an attempt.
IsTransient(resp) ==
  \/ ~resp.ok
  \/ resp.status \in RETRY_STATUS_CODES
  \/ (is_success(resp.status) /\ resp.body = BodyError)

\* What may come back for a request of a run: a server answers 304 only
\* to a conditional request.
PipelineResponses(call) ==
  {NetworkError}
  \cup {HttpResponse(st, None, None, Nothing) : st \in {404, 503}}
  \cup {HttpResponse(304, v[1], v[2], Nothing) :
          v \in IF call.etag # None \/ call.last_modified # None
                THEN {<<"e1", "m1">>} ELSE {}}
  \cup {HttpResponse(200, v[1], v[2], b) :
          v \in ServerValidators,
          b \in {Some(x) : x \in ServerBodies(call.url)} \cup {BodyError}}

\* What may come back for a request of the single call of SpecDownload.
DownloadStatuses == {200, 304, 403, 404, 429, 500, 502, 503, 504}
DownloadResponses ==
  {NetworkError}
  \cup {HttpResponse(st, e, m, b) :
          st \in DownloadStatuses, e \in {None, "e1", NotVisibleAscii},
          m \in {None, "m1"}, b \in {Some(<<"a.com">>), BodyError}}

(***************************************************************************)
(* The state                                                               *)
(***************************************************************************)
VARIABLES
  progress_file,     \* disk: download_progress.json, a map name -> ProgressEntry
  list_files,        \* disk: base_dir/<category>/<name>.txt, a map <<category, name>> -> lines
  raw_written,       \* disk: the base_dir/<category>/<name>.txt.raw the current run wrote
  prod_written,      \* disk: the writes the current run made in prod_dir, each the
                     \*       file's name and the lines written
  config,            \* BlocklistManager.config
  progress,          \* BlocklistManager.progress.entries
  whitelist,         \* BlocklistManager.whitelist
  blocklists,        \* run: blocklists
  calls,             \* run: the download call of each blocklist in the stream, kept
                     \*      after it returned as the record of what it did
  results,           \* run: results, in the order the calls completed
  pos,               \* run: the position of the loop over results (or blocklists)
  category_domains,  \* run: category_domains
  successful,        \* run: successful
  skipped,           \* run: skipped
  failed,            \* run: failed
  summary,           \* run: unique_domains, whitelisted, final_domains
  pc,                \* idle | fetch | merge | load | done
  run_result,        \* what run() returned: "Ok" or the error, None before
  runs,              \* the number of runs started; it stands for the clock
  faults,            \* the number of faults of the environment so far
  dl,                \* the single download call of SpecDownload
  fd,                \* the single filter_domains call of SpecFilter
  fc,                \* the single call of a function of domain.rs of SpecDomain
  derived            \* history: name -> the domains derived from the list at the
                     \*      Success that recorded the validator the store holds

disk_vars == <<progress_file, list_files, raw_written, prod_written>>
manager_vars == <<config, progress, whitelist>>
run_vars == <<blocklists, calls, results, pos, category_domains, successful, skipped,
              failed, summary, pc, run_result>>
call_vars == <<dl, fd, fc>>
vars == <<disk_vars, manager_vars, run_vars, runs, faults, call_vars, derived>>

PendingCall == [NewCall("", None, None) EXCEPT !.pc = "pending"]
IdleCall == [NewCall("", None, None) EXCEPT !.pc = "idle"]

\* The errors run() returns, named by the call whose error `?` passes on.
ErrLoadBlocklists == "Err: load_blocklists"
ErrCreateDirectories == "Err: create_directories"
ErrCreateProductionLists == "Err: create_production_lists"
IsErr(r) == r \in {ErrLoadBlocklists, ErrCreateDirectories, ErrCreateProductionLists}

NoSummary == [unique_domains |-> 0, whitelisted |-> 0, final_domains |-> 0]

\* The state before the first run, the download call aside.
InitRuns ==
  /\ progress_file = <<>>
  /\ list_files = <<>>
  /\ raw_written = <<>>
  /\ prod_written = {}
  /\ config = AppConfigOf(Cli("", "", 0, {}))
  /\ progress = <<>>
  /\ whitelist = WhitelistLoad(Nothing, FALSE)
  /\ blocklists = <<>>
  /\ calls = <<>>
  /\ results = <<>>
  /\ pos = 1
  /\ category_domains = <<>>
  /\ successful = 0
  /\ skipped = 0
  /\ failed = 0
  /\ summary = NoSummary
  /\ pc = "idle"
  /\ run_result = None
  /\ runs = 0
  /\ faults = 0
  /\ derived = <<>>

\* A filter_domains call: the whitelist source the manager was loaded from,
\* the manager, the argument, and the (filtered, removed) it returned.
FilterCall(source, wl, domains) ==
  [pc |-> "ready", source |-> source, wl |-> wl, domains |-> domains,
   filtered |-> {}, removed |-> 0]
IdleFilter == [FilterCall(Nothing, WhitelistLoad(Nothing, FALSE), {}) EXCEPT !.pc = "idle"]

\* A call of a function of domain.rs: the function, its argument, and what
\* it returned.
DomainCall(op, arg) == [pc |-> "ready", op |-> op, arg |-> arg, out |-> Nothing]
IdleDomainCall == [DomainCall("", "") EXCEPT !.pc = "idle"]

Init == InitRuns /\ dl = IdleCall /\ fd = IdleFilter /\ fc = IdleDomainCall

(***************************************************************************)
(* pipeline.rs: BlocklistManager::new and run                              *)
(***************************************************************************)
\* category_domains.entry(category).or_default().extend(domains)
ExtendCategory(cd, category, domains) ==
  MapInsert(cd, category,
            (IF category \in DOMAIN cd THEN cd[category] ELSE {}) \cup domains)

ListPath(bl) == <<bl.category, bl.name>>

\* The union of the sets of every category.
EveryCategoryDomains(cd) == UNION {cd[c] : c \in DOMAIN cd}

\* The union of the sets of every category but "nsfw".
NonNsfwDomains(cd) == UNION {cd[c] : c \in DOMAIN cd \ {"nsfw"}}

\* A process starts: BlocklistManager::new (the validator store and the
\* whitelist are read), then run() up to the first fetch: load_blocklists,
\* the dry-run return, create_directories.
StartRun(cli, dirs_ok) ==
  /\ pc \in {"idle", "done"}
  /\ runs < MaxRuns
  /\ LET Begin(cfg, loaded, proceeds) ==
           /\ dirs_ok \/ (proceeds /\ faults < MaxFaults)
           /\ faults' = IF dirs_ok THEN faults ELSE faults + 1
           /\ runs' = runs + 1
           /\ config' = cfg
           /\ progress' = progress_file
           /\ whitelist' = WhitelistLoad(WhitelistFile(cfg.whitelist_file),
                                         cfg.whitelist_subdomain)
           /\ blocklists' = IF IsSome(loaded) THEN Unwrap(loaded) ELSE <<>>
           /\ calls' = [i \in 1..Len(blocklists') |-> PendingCall]
           /\ results' = <<>>
           /\ pos' = 1
           /\ category_domains' = <<>>
           /\ successful' = 0
           /\ skipped' = 0
           /\ failed' = 0
           /\ summary' = NoSummary
           /\ raw_written' = <<>>
           /\ prod_written' = {}
           /\ pc' = IF ~proceeds \/ ~dirs_ok THEN "done"
                    ELSE IF cfg.skip_download THEN "load"
                    ELSE "fetch"
           /\ run_result' = IF ~IsSome(loaded) THEN ErrLoadBlocklists
                            ELSE IF cfg.dry_run THEN "Ok"
                            ELSE IF ~dirs_ok THEN ErrCreateDirectories
                            ELSE None
         Loaded(cfg, loaded) == Begin(cfg, loaded, IsSome(loaded) /\ ~cfg.dry_run)
     IN Loaded(AppConfigOf(cli), load_blocklists(ConfigFile(cli.config), progress_file))
  /\ UNCHANGED <<progress_file, list_files, call_vars, derived>>

\* A stream that ends with the first Err it yields.
StreamEndedAtFirstErr(rs, bls) ==
  Len(rs) = Len(bls) \/ (rs # <<>> /\ rs[Len(rs)].result.kind = "Err")

\* collect(): the stream ends when every future has yielded its (bl, result).
StreamEnded(rs, bls) == Len(rs) = Len(bls)

\* A count of the futures that leaves out those in their backoff sleep.
InFlightAwaitingResponse == {i \in DOMAIN calls : calls[i].pc = "send"}

\* The futures buffer_unordered holds: polled and not yet complete.
InFlight == {i \in DOMAIN calls : calls[i].pc \in {"send", "sleep"}}

\* buffer_unordered takes the next future of the stream while fewer than
\* config.threads are in flight, and polls it: download begins.
StartFetch(i) ==
  /\ pc = "fetch"
  /\ i \in DOMAIN calls
  /\ calls[i].pc = "pending"
  /\ \A j \in 1..(i - 1) : calls[j].pc # "pending"
  /\ Cardinality(InFlight) < config.threads
  /\ LET bl == blocklists[i]
     IN calls' = [calls EXCEPT ![i] =
                    NewCall(bl.url,
                            IF config.incremental THEN bl.etag ELSE None,
                            IF config.incremental THEN bl.last_modified ELSE None)]
  /\ UNCHANGED <<disk_vars, manager_vars, blocklists, results, pos, category_domains,
                 successful, skipped, failed, summary, pc, run_result, runs, faults, call_vars, derived>>

\* A request of call i is answered.  A call that returns hands (bl, result)
\* to collect(); the last one ends the stream and the loop over results
\* begins.
Respond(i, resp) ==
  /\ pc = "fetch"
  /\ i \in DOMAIN calls
  /\ calls[i].pc = "send"
  /\ resp \in PipelineResponses(calls[i])
  /\ IsTransient(resp) => faults < MaxFaults
  /\ faults' = IF IsTransient(resp) THEN faults + 1 ELSE faults
  /\ calls' = [calls EXCEPT ![i] = DownloadStep(calls[i], resp)]
  /\ IF calls'[i].pc = "returned"
     THEN /\ results' = Append(results, [bl |-> blocklists[i],
                                         result |-> calls'[i].result])
          /\ pc' = IF StreamEnded(results', blocklists) THEN "merge" ELSE "fetch"
     ELSE UNCHANGED <<results, pc>>
  /\ UNCHANGED <<disk_vars, manager_vars, blocklists, pos, category_domains,
                 successful, skipped, failed, summary, run_result, runs, call_vars, derived>>

\* The backoff sleep of call i is over.
Wake(i) ==
  /\ pc = "fetch"
  /\ i \in DOMAIN calls
  /\ calls[i].pc = "sleep"
  /\ calls' = [calls EXCEPT ![i] = WakeStep(calls[i])]
  /\ UNCHANGED <<disk_vars, manager_vars, blocklists, results, pos, category_domains,
                 successful, skipped, failed, summary, pc, run_result, runs, faults, call_vars, derived>>

\* load_domains_from_file on an existing file: Some(domains), or Nothing
\* when reading fails.
load_domains_from_file(lines, read_ok) ==
  IF read_ok THEN Some(process_content(lines)) ELSE Nothing

\* The number of failed operations among the given outcomes.
Failures(oks) == Len(SelectSeq(oks, LAMBDA ok : ~ok))

\* One iteration of the loop over results.
MergeStep(raw_ok, opt_ok, save_ok, read_ok) ==
  /\ pc = "merge"
  /\ pos <= Len(results)
  /\ pos' = pos + 1
  /\ LET bl == results[pos].bl
         dr == results[pos].result
         path == ListPath(bl)
         \* if let Ok(domains) = load_domains_from_file(&file_path)
         Reloaded(loaded) ==
           category_domains' =
             IF IsSome(loaded)
             THEN ExtendCategory(category_domains, bl.category, Unwrap(loaded))
             ELSE category_domains
         Processed(content, domains) ==
           /\ raw_written' = IF raw_ok THEN MapInsert(raw_written, path, content)
                             ELSE raw_written
           /\ list_files' =
                IF opt_ok
                THEN MapInsert(list_files, path, BlocklistFileLines(domains, None))
                ELSE list_files
           /\ progress' = ProgressUpdate(progress, bl.name, dr.etag, dr.last_modified,
                                         Cardinality(domains), runs)
           /\ progress_file' = IF save_ok THEN progress' ELSE progress_file
           /\ category_domains' = ExtendCategory(category_domains, bl.category, domains)
           /\ derived' = MapInsert(derived, bl.name, domains)
     IN IF dr.kind = "Err"
        THEN /\ raw_ok /\ opt_ok /\ save_ok /\ read_ok
             /\ failed' = failed + 1
             /\ UNCHANGED <<disk_vars, progress, category_domains, successful, skipped,
                            faults, derived>>
        ELSE IF ~dr.was_modified
        THEN /\ raw_ok /\ opt_ok /\ save_ok
             /\ read_ok \/ (path \in DOMAIN list_files /\ faults < MaxFaults)
             /\ faults' = faults + Failures(<<read_ok>>)
             /\ skipped' = skipped + 1
             /\ IF path \in DOMAIN list_files
                THEN Reloaded(load_domains_from_file(list_files[path], read_ok))
                ELSE UNCHANGED category_domains
             /\ UNCHANGED <<disk_vars, progress, successful, failed, derived>>
        ELSE /\ read_ok
             /\ faults + Failures(<<raw_ok, opt_ok, save_ok>>) <= MaxFaults
             /\ faults' = faults + Failures(<<raw_ok, opt_ok, save_ok>>)
             /\ Processed(Unwrap(dr.content), process_content(Unwrap(dr.content)))
             /\ successful' = successful + 1
             /\ UNCHANGED <<prod_written, skipped, failed>>
  /\ UNCHANGED <<config, whitelist, blocklists, calls, results, summary, pc, run_result,
                 runs, call_vars>>

\* One iteration of the loop of the skip_download branch.
LoadStep(read_ok) ==
  /\ pc = "load"
  /\ pos <= Len(blocklists)
  /\ pos' = pos + 1
  /\ LET bl == blocklists[pos]
         path == ListPath(bl)
         \* match load_domains_from_file(&file_path)
         Loaded(loaded) ==
           IF IsSome(loaded)
           THEN /\ category_domains' =
                     ExtendCategory(category_domains, bl.category, Unwrap(loaded))
                /\ successful' = successful + 1
                /\ UNCHANGED failed
           ELSE /\ failed' = failed + 1
                /\ UNCHANGED <<category_domains, successful>>
     IN IF path \in DOMAIN list_files
        THEN /\ read_ok \/ faults < MaxFaults
             /\ faults' = faults + Failures(<<read_ok>>)
             /\ Loaded(load_domains_from_file(list_files[path], read_ok))
        ELSE /\ read_ok
             /\ failed' = failed + 1
             /\ UNCHANGED <<category_domains, successful, faults>>
  /\ UNCHANGED <<disk_vars, manager_vars, blocklists, calls, results, skipped, summary,
                 pc, run_result, runs, call_vars, derived>>

\* A write of write_blocklist_file or generate_report in prod_dir.
Written(name, lines) == [name |-> name, lines |-> lines]

\* create_production_lists.  failing names the write that fails, if any:
\* "master", a category, or "report" (NoFailure: none); the first failure
\* returns Err.  The categories are visited in the map's arbitrary order:
\* `before` are those written before a failing category.
NoFailure == ""
create_production_lists(wl, cfg, cd, failing, before) ==
  LET cats == {c \in DOMAIN cd : cd[c] # {}}
      CatLines(c) == BlocklistFileLines(filter_domains(wl, cd[c]).filtered, capitalize(c))
      written == IF failing \in cats THEN before ELSE cats
      Lists(master) == IF failing = "master" THEN {}
                       ELSE {Written("all_domains.txt", master)}
                            \cup {Written(c \o ".txt", CatLines(c)) : c \in written}
      Outcome(all_domains, f, lists) ==
        [ok |-> failing = NoFailure,
         files |-> IF cfg.whitelist_report /\ f.removed > 0 /\ failing = NoFailure
                   THEN lists \cup {Written("whitelist_report.txt",
                                               ReportLines(wl, all_domains \ f.filtered))}
                   ELSE lists,
         removed |-> f.removed,
         final |-> Cardinality(f.filtered)]
      Filtered(all_domains, f) ==
        Outcome(all_domains, f, Lists(BlocklistFileLines(f.filtered, "Master")))
      All(all_domains) == Filtered(all_domains, filter_domains(wl, all_domains))
  IN All(NonNsfwDomains(cd))

\* The writes of create_production_lists that can fail.
ProductionWrites(wl, cfg, cd) ==
  {"master"} \cup {c \in DOMAIN cd : cd[c] # {}}
  \cup (IF cfg.whitelist_report
           /\ filter_domains(wl, NonNsfwDomains(cd)).removed > 0
        THEN {"report"} ELSE {})

\* The end of run(): unique_domains, create_production_lists, the summary.
Finish(failing, before) ==
  /\ \/ pc = "merge" /\ pos > Len(results)
     \/ pc = "load" /\ pos > Len(blocklists)
  /\ LET unique_domains == Cardinality(NonNsfwDomains(category_domains))
         Produced(o) ==
           /\ prod_written' = o.files
           /\ run_result' = IF o.ok THEN "Ok" ELSE ErrCreateProductionLists
           /\ summary' = IF o.ok
                         THEN [unique_domains |-> unique_domains,
                               whitelisted |-> o.removed,
                               final_domains |-> o.final]
                         ELSE NoSummary
     IN IF config.skip_optimize
        THEN /\ failing = NoFailure /\ before = {}
             /\ summary' = [unique_domains |-> unique_domains, whitelisted |-> 0,
                            final_domains |-> unique_domains]
             /\ run_result' = "Ok"
             /\ UNCHANGED <<prod_written, faults>>
        ELSE /\ \/ failing = NoFailure /\ before = {}
                \/ /\ faults < MaxFaults
                   /\ failing \in ProductionWrites(whitelist, config, category_domains)
                   /\ IF failing \in DOMAIN category_domains
                      THEN failing \notin before
                      ELSE before = {}
             /\ Produced(create_production_lists(whitelist, config, category_domains,
                                                 failing, before))
             /\ faults' = IF failing = NoFailure THEN faults ELSE faults + 1
  /\ pc' = "done"
  /\ UNCHANGED <<progress_file, list_files, raw_written, manager_vars, blocklists, calls,
                 results, pos, category_domains, successful, skipped, failed, runs, call_vars, derived>>

Next ==
  \/ \E cli \in CliPool, dirs_ok \in BOOLEAN : StartRun(cli, dirs_ok)
  \/ \E i \in DOMAIN calls : StartFetch(i)
  \/ \E i \in DOMAIN calls : \E resp \in PipelineResponses(calls[i]) : Respond(i, resp)
  \/ \E i \in DOMAIN calls : Wake(i)
  \/ \E raw_ok, opt_ok, save_ok, read_ok \in BOOLEAN :
       MergeStep(raw_ok, opt_ok, save_ok, read_ok)
  \/ \E read_ok \in BOOLEAN : LoadStep(read_ok)
  \/ \E failing \in {NoFailure, "master", "report"} \cup DOMAIN category_domains :
       \E before \in SUBSET {c \in DOMAIN category_domains : category_domains[c] # {}} :
         Finish(failing, before)

Spec == Init /\ [][Next]_vars

(***************************************************************************)
(* One download call on its own, with every answer a server can give.      *)
(***************************************************************************)
InitDownload ==
  /\ InitRuns
  /\ \E etag \in {None, "e0"}, last_modified \in {None, "m0"} :
       dl = NewCall("http://h/ads", etag, last_modified)
  /\ fd = IdleFilter
  /\ fc = IdleDomainCall

DlRespond(resp) ==
  /\ dl.pc = "send"
  /\ dl' = DownloadStep(dl, resp)
  /\ UNCHANGED <<disk_vars, manager_vars, run_vars, runs, faults, derived, fd, fc>>

DlWake ==
  /\ dl.pc = "sleep"
  /\ dl' = WakeStep(dl)
  /\ UNCHANGED <<disk_vars, manager_vars, run_vars, runs, faults, derived, fd, fc>>

NextDownload ==
  \/ \E resp \in DownloadResponses : DlRespond(resp)
  \/ DlWake

SpecDownload == InitDownload /\ [][NextDownload]_vars

\* Every request is answered or times out (the client sets a timeout), and
\* every sleep ends.
SpecDownloadFair == SpecDownload /\ WF_vars(NextDownload)

(***************************************************************************)
(* One filter_domains call on its own: a manager loaded from a whitelist   *)
(* source, applied to a set of canonical domains.                          *)
(***************************************************************************)
WhitelistSources ==
  { << >>,
    << "# nothing but a comment", "not a domain" >>,
    << "example.com" >>,
    << "Example.COM.", "b.example.com  # exact" >>,
    << "*.cdn.com", "/^track\\d+\\./" >>,
    << "example.com", "*.cdn.com", "/(/" >>,
    << "a.b.example.com", "*(.com", "*.cdn.com  # wildcard", "/^track\\d+\\./" >>,
    << "/^(?P<n>img)\\./", "/^(?P<n>track)\\d/" >>,
    << "/^(?P<n>img)\\./", "/x)/", "notexample.com", "/^(?P<n>track)\\d/" >> }

FilterDomainPool ==
  { "example.com", "sub.example.com", "notexample.com", "a.b.example.com",
    "img.cdn.com", "track1.x.com" }

InitFilter ==
  /\ InitRuns
  /\ dl = IdleCall
  /\ fc = IdleDomainCall
  /\ \E source \in WhitelistSources, enable_subdomain \in BOOLEAN,
        domains \in SUBSET FilterDomainPool :
       fd = FilterCall(Some(source), WhitelistLoad(Some(source), enable_subdomain),
                       domains)

FilterStep ==
  /\ fd.pc = "ready"
  /\ LET Returned(r) == fd' = [fd EXCEPT !.pc = "returned",
                                        !.filtered = r.filtered,
                                        !.removed = r.removed]
     IN Returned(filter_domains(fd.wl, fd.domains))
  /\ UNCHANGED <<disk_vars, manager_vars, run_vars, runs, faults, derived, dl, fc>>

NextFilter == FilterStep

SpecFilter == InitFilter /\ [][NextFilter]_vars

(***************************************************************************)
(* One call of extract_domain_from_line or of validate_domain on its own.  *)
(***************************************************************************)
\* n copies of the character c.
RECURSIVE Rep(_, _)
Rep(c, n) ==
  LET Twice(half) == half \o half \o (IF n % 2 = 1 THEN c ELSE "")
  IN IF n = 0 THEN "" ELSE Twice(Rep(c, n \div 2))

\* The lines given to extract_domain_from_line: a text, with or without
\* leading whitespace, trailing whitespace and an inline comment.
LineTexts ==
  { "", "ads.example.com", "0.0.0.0 ads.example.com", "127.0.0.1 \t tracker.com",
    "||ads.example.com^", "||ads.example.com^$third-party", "||a.com^b.com^",
    "||a b.com^", "||^", "||a.com^x", "0.0.0.0 ||x.com^", "0.0.0.0 a.com b.com",
    "0.0.0.0", "1234.0.0.1 a.com", "999.9.99.0 a.com", "1.2.3 a.com",
    "not a domain", "http://h/x", "a.com?q", "Bad_Name.COM." }
LineHeads == { "", "  ", "\t" }
LineTails == { "", " ", " # note", "#c", "!", " ! x # y" }
ExtractLines ==
  { h \o t \o e : h \in LineHeads, t \in LineTexts, e \in LineTails }

Label63 == Rep("a", LABEL_INTERIOR_MAX + 2)
\* Three labels of 63 characters and their dots: 192 characters.
Labels192 == Label63 \o "." \o Label63 \o "." \o Label63 \o "."

\* The strings given to validate_domain.
ValidateStrings ==
  { "", "localhost", "LOCALHOST", "test.local", "a.b.local", ".local", "Foo.LOCAL",
    "local", "example.com", "sub.example.com", "a.b.c.d.example.com", "Example.COM",
    "example.com.", "-invalid.com", "-", "-a", "a-.com", "a.-b.com", "a.b-c.co",
    "a--b.com", "a.com-", "a_b.com", "a b.com", "a..com", ".com", "com", "c", "a.b",
    "a.co", "x.y.z", "1.2.3.4", "1.2.3.44", "xn--p1ai.com",
    "*.example.com", "*.com", "*.a.b", "*.", "*.*.example.com", "*example.com",
    "*.test.local", "*.-a.com",
    Label63 \o ".com", Label63 \o "a.com", "a." \o Label63, "a." \o Label63 \o "a",
    Labels192 \o Rep("b", MAX_DOMAIN_LENGTH - 192),
    Labels192 \o Rep("b", MAX_DOMAIN_LENGTH - 191),
    "-" \o Labels192 \o Rep("b", MAX_DOMAIN_LENGTH - 192),
    "*." \o Labels192 \o Rep("b", MAX_DOMAIN_LENGTH - 194),
    Rep("a", MAX_DOMAIN_LENGTH + 1) }

InitDomain ==
  /\ InitRuns
  /\ dl = IdleCall
  /\ fd = IdleFilter
  /\ \/ \E line \in ExtractLines : fc = DomainCall("extract_domain_from_line", line)
     \/ \E domain \in ValidateStrings : fc = DomainCall("validate_domain", domain)

ExtractStep ==
  /\ fc.pc = "ready"
  /\ fc.op = "extract_domain_from_line"
  /\ fc' = [fc EXCEPT !.pc = "returned", !.out = Some(extract_domain_from_line(fc.arg))]
  /\ UNCHANGED <<disk_vars, manager_vars, run_vars, runs, faults, derived, dl, fd>>

ValidateStep ==
  /\ fc.pc = "ready"
  /\ fc.op = "validate_domain"
  /\ fc' = [fc EXCEPT !.pc = "returned", !.out = Some(validate_domain(fc.arg))]
  /\ UNCHANGED <<disk_vars, manager_vars, run_vars, runs, faults, derived, dl, fd>>

NextDomain == ExtractStep \/ ValidateStep

SpecDomain == InitDomain /\ [][NextDomain]_vars

(***************************************************************************)
(* download: retries                                                       *)
(***************************************************************************)
\* C1: every transient failure of an attempt (a retryable status, or a
\* network-level failure, be it of the request or of reading the body)
\* triggers another attempt unless the budget of MAX_RETRIES retries is
\* exhausted, in which case the call returns Failed; the failures of a call
\* draw on one budget, so each earlier attempt has used one unit of it.
C1_TransientFailureRetried ==
  (dl.requests > 0 /\ IsTransient(dl.resp)) =>
    \/ /\ dl.pc \in {"sleep", "send"}
       /\ dl.attempts = dl.requests
       /\ dl.attempts <= MAX_RETRIES
    \/ /\ dl.pc = "returned"
       /\ dl.result.kind = "Err"
       /\ dl.attempts = MAX_RETRIES
       /\ dl.requests = MAX_RETRIES + 1

\* The DownloadResult a response determines when it is not retried.
OutcomeOf(call, resp) ==
  IF ~resp.ok THEN "Failed"
  ELSE IF resp.status = 304 THEN "NotModified"
  ELSE IF is_success(resp.status) /\ resp.body # BodyError THEN "Success"
  ELSE "Failed"

OutcomeIs(result, outcome) ==
  CASE outcome = "Failed" -> result.kind = "Err"
    [] outcome = "NotModified" -> result.kind = "Ok" /\ ~result.was_modified
    [] outcome = "Success" -> result.kind = "Ok" /\ result.was_modified

C2_Bounded ==
  /\ dl.requests <= MAX_RETRIES + 1
  /\ dl.requests = MAX_RETRIES + 1 =>
       /\ dl.pc = "returned"
       /\ OutcomeIs(dl.result, OutcomeOf(dl, dl.resp))
       /\ OutcomeOf(dl, dl.resp) = "Success" => dl.result.content = dl.resp.body

\* C2: a call never issues more than MAX_RETRIES + 1 requests; after
\* MAX_RETRIES failed attempts the next attempt is the last, and its response
\* alone decides the outcome (Success with its body for a successful
\* response, Failed for a failure); and every call eventually returns.
C2_FourthAttemptDecides == []C2_Bounded /\ <>(dl.pc = "returned")

C2_Witness ==
  /\ dl.pc = "returned"
  /\ dl.requests = MAX_RETRIES + 1
  /\ Len(dl.delays) = MAX_RETRIES
  /\ dl.result.kind = "Ok" /\ dl.result.was_modified

NonRetryableFailure(resp) ==
  /\ resp.ok
  /\ ~is_success(resp.status)
  /\ resp.status # 304
  /\ resp.status \notin RETRY_STATUS_CODES

\* C3: the step that receives an unsuccessful status other than 304 and
\* outside RETRY_STATUS_CODES returns Failed in that step, taking no backoff
\* delay and using no retry, whatever the attempts used before; and a call
\* that has returned issues no further request.
C3_NonRetryableFailsAtOnce ==
  [][ /\ (dl.pc = "send" /\ dl'.requests = dl.requests + 1
            /\ NonRetryableFailure(dl'.resp))
         => /\ dl'.pc = "returned"
            /\ dl'.result.kind = "Err"
            /\ dl'.delays = dl.delays
            /\ dl'.attempts = dl.attempts
      /\ dl.pc = "returned" => dl'.requests = dl.requests ]_vars

C3_Witness ==
  /\ dl.pc = "returned"
  /\ NonRetryableFailure(dl.resp)
  /\ dl.requests = 3
  /\ dl.attempts = 2
  /\ dl.result.kind = "Err"

\* C4: a call whose last response is a 304 has returned NotModified with no
\* content and with the entity-tag and last-modified values passed in to the
\* call, on the first attempt or after retries.
C4_NotModifiedKeepsValidator ==
  (dl.requests > 0 /\ dl.resp.ok /\ dl.resp.status = 304) =>
    /\ dl.pc = "returned"
    /\ dl.result.kind = "Ok"
    /\ ~dl.result.was_modified
    /\ dl.result.content = Nothing
    /\ dl.result.etag = dl.etag
    /\ dl.result.last_modified = dl.last_modified

C4_Witness ==
  /\ dl.pc = "returned"
  /\ dl.resp.ok /\ dl.resp.status = 304
  /\ dl.requests > 1
  /\ dl.etag = "e0" /\ dl.resp.etag = "e1"
  /\ dl.last_modified = None /\ dl.resp.last_modified = "m1"

(***************************************************************************)
(* run: validators, outcomes, the re-read of unchanged lists, the outputs  *)
(***************************************************************************)
\* A returned call whose last response is a success with a readable body
\* returned that body and the validator of that response's headers, and
\* every (bl, result) of results is what the call of bl returned.
C5_Returned ==
  /\ \A i \in DOMAIN calls :
       (calls[i].pc = "returned" /\ calls[i].resp.ok
          /\ is_success(calls[i].resp.status) /\ calls[i].resp.body # BodyError)
       => /\ calls[i].result.kind = "Ok"
          /\ calls[i].result.was_modified
          /\ calls[i].result.content = calls[i].resp.body
          /\ calls[i].result.etag = HeaderStr(calls[i].resp.etag)
          /\ calls[i].result.last_modified = HeaderStr(calls[i].resp.last_modified)
  /\ \A k \in DOMAIN results :
       \E i \in DOMAIN calls : /\ blocklists[i] = results[k].bl
                               /\ calls[i].pc = "returned"
                               /\ calls[i].result = results[k].result

\* The step of the loop over results that handles a Success stores for the
\* list's name the validator of the result, and saves the store (unless the
\* save fails, which leaves the file as it was).
C5_Stored ==
  (pc = "merge" /\ pos' = pos + 1
     /\ results[pos].result.kind = "Ok" /\ results[pos].result.was_modified)
  => /\ progress'[results[pos].bl.name].etag = results[pos].result.etag
     /\ progress'[results[pos].bl.name].last_modified = results[pos].result.last_modified
     /\ \/ progress_file' = progress'
        \/ progress_file' = progress_file /\ faults' > faults

\* C5: on a successful response download returns Success with the body and
\* with each of entity-tag and last-modified as the response's headers give
\* it (None when the header is absent, whatever the request carried), and
\* the run stores exactly the returned validator for the list.
C5_ValidatorFromResponse == []C5_Returned /\ [][C5_Stored]_vars

C5_Witness ==
  \E i \in DOMAIN calls :
    /\ pc = "done"
    /\ calls[i].pc = "returned"
    /\ calls[i].etag = "e1" /\ calls[i].last_modified = "m1"
    /\ calls[i].resp.ok /\ calls[i].resp.status = 200
    /\ calls[i].resp.etag = None /\ calls[i].resp.last_modified = None
    /\ calls[i].result.was_modified
    /\ progress_file[blocklists[i].name].etag = None
    /\ progress_file[blocklists[i].name].last_modified = None

\* Every descriptor has one outcome, counted once; a category has domains
\* only from a descriptor that did not fail; and run() returns no error but
\* that of a failed write of create_production_lists.
C6_Counted ==
  /\ successful + skipped + failed = Len(blocklists)
  /\ ~config.skip_download =>
       /\ Len(results) = Len(blocklists)
       /\ \A i \in DOMAIN blocklists :
            Cardinality({k \in DOMAIN results : results[k].bl = blocklists[i]}) = 1
       /\ failed = Cardinality({k \in DOMAIN results : results[k].result.kind = "Err"})
       /\ skipped = Cardinality({k \in DOMAIN results :
                                   /\ results[k].result.kind = "Ok"
                                   /\ ~results[k].result.was_modified})
       /\ successful = Cardinality({k \in DOMAIN results :
                                      /\ results[k].result.kind = "Ok"
                                      /\ results[k].result.was_modified})
       /\ \A c \in DOMAIN category_domains :
            \E k \in DOMAIN results : /\ results[k].bl.category = c
                                      /\ results[k].result.kind = "Ok"
  /\ IsErr(run_result) => run_result = ErrCreateProductionLists /\ faults > 0

\* C6 as the claim states it: in every run that passed configuration
\* loading, every descriptor has exactly one outcome, so that successful +
\* skipped + failed is the number of descriptors.
C6_AsStated ==
  (pc = "done" /\ blocklists # <<>>) => C6_Counted

\* C6: in every run that passed configuration loading, is not a dry run and
\* created its directories, every descriptor has exactly one outcome, so
\* that successful + skipped + failed is the number of descriptors; a
\* failed descriptor contributes no domains and keeps no other descriptor
\* from its outcome; and fetch failures make run() return no error.
C6_EveryDescriptorOneOutcome ==
  (pc = "done" /\ blocklists # <<>> /\ ~config.dry_run
     /\ run_result # ErrCreateDirectories)
  => C6_Counted

C6_Witness ==
  /\ pc = "done"
  /\ run_result = "Ok"
  /\ Len(results) = 2
  /\ results[1].result.kind = "Err"
  /\ results[2].result.kind = "Ok" /\ results[2].result.was_modified
  /\ failed = 1 /\ successful = 1
  /\ results[2].bl.category \in DOMAIN category_domains

\* C7: at the end of a run, for every list whose outcome was NotModified,
\* the set of the list's category contains every domain derived from the
\* list at its most recent Success, the one that recorded the validator the
\* store holds for it.
C7_NotModifiedKeepsDomains ==
  (pc = "done" /\ ~config.dry_run /\ ~config.skip_download /\ pos > Len(results)) =>
    \A k \in DOMAIN results :
      (/\ results[k].result.kind = "Ok"
       /\ ~results[k].result.was_modified
       /\ results[k].bl.name \in DOMAIN derived)
      => derived[results[k].bl.name] \subseteq
           (IF results[k].bl.category \in DOMAIN category_domains
            THEN category_domains[results[k].bl.category]
            ELSE {})

\* The claims' notion of a whitelisted domain: an exact entry, with
\* subdomain matching the text after one of its dots an exact entry, or a
\* match of the combined pattern.
IsWhitelisted(wl, d) ==
  \/ d \in wl.exact_domains
  \/ /\ wl.enable_subdomain
     /\ \E i \in 1..Len(d) : /\ Ch(d, i) = "."
                             /\ SubSeq(d, i + 1, Len(d)) \in wl.exact_domains
  \/ /\ IsSome(wl.combined_pattern)
     /\ CombinedIsMatch(Unwrap(wl.combined_pattern), d)

\* The entries of a written blocklist file, and their number.
FileEntries(lines) == {i \in 1..Len(lines) : StartsWith(lines[i], "0.0.0.0 ")}
FileDomains(lines) == {SubSeq(lines[i], 9, Len(lines[i])) : i \in FileEntries(lines)}

\* A write of the file `name`, headed by `label`, whose entries are the
\* domains of S, each once.
WroteExactly(name, label, S) ==
  \E w \in prod_written :
    /\ w.name = name
    /\ w.lines[1] = "# Pi-hole " \o label \o " Blocklist"
    /\ FileDomains(w.lines) = S
    /\ Cardinality(FileEntries(w.lines)) = Cardinality(S)

C9_ExactAndSubdomain ==
  (fd.pc = "returned" /\ ~IsSome(fd.wl.combined_pattern) /\ fd.wl.exact_domains # {}) =>
    \A d \in fd.domains :
      d \notin fd.filtered <=>
        IF fd.wl.enable_subdomain
        THEN \/ d \in fd.wl.exact_domains
             \/ \E i \in 1..Len(d) : /\ Ch(d, i) = "."
                                     /\ SubSeq(d, i + 1, Len(d)) \in fd.wl.exact_domains
        ELSE d \in fd.wl.exact_domains

C9_Witness ==
  /\ fd.pc = "returned"
  /\ fd.wl.exact_domains = {"example.com"}
  /\ ~IsSome(fd.wl.combined_pattern)
  /\ fd.wl.enable_subdomain
  /\ {"sub.example.com", "notexample.com"} \subseteq fd.domains
  /\ "sub.example.com" \notin fd.filtered
  /\ "notexample.com" \in fd.filtered

C10_Partition ==
  fd.pc = "returned" =>
    IF fd.wl.exact_domains = {} /\ ~IsSome(fd.wl.combined_pattern)
    THEN fd.filtered = fd.domains /\ fd.removed = 0
    ELSE /\ fd.filtered = {d \in fd.domains : ~IsWhitelisted(fd.wl, d)}
         /\ fd.removed = Cardinality({d \in fd.domains : IsWhitelisted(fd.wl, d)})
         /\ fd.filtered \subseteq fd.domains
         /\ Cardinality(fd.filtered) + fd.removed = Cardinality(fd.domains)

\* C10: filter_domains returns the input and 0 when no rule was loaded;
\* otherwise filtered is the input domains that are not whitelisted, removed
\* the number of those that are, filtered a subset of the input and
\* |filtered| + removed = |input|; and the call leaves its input as it was.
C10_FilterPartitions ==
  []C10_Partition /\ [][fd'.domains = fd.domains /\ fd'.wl = fd.wl]_vars

C10_Witness ==
  /\ fd.pc = "returned"
  /\ fd.wl.exact_domains = {"example.com"}
  /\ IsSome(fd.wl.combined_pattern)
  /\ fd.domains = FilterDomainPool
  /\ fd.filtered = {"notexample.com", "track1.x.com"}
  /\ fd.removed = 4

(***************************************************************************)
(* extract_domain_from_line and validate_domain                            *)
(***************************************************************************)
\* An IPv4 address as the host-mapping form reads it: four groups of one
\* to three digits, separated by dots.
IsDottedQuad(a) ==
  LET Of(parts) ==
        /\ Len(parts) = 4
        /\ \A i \in 1..4 : /\ Len(parts[i]) \in 1..3
                           /\ \A k \in 1..Len(parts[i]) : IsDigit(Ch(parts[i], k))
  IN Of(Split(a, "."))

\* The tokens t for which s is an IPv4 address, whitespace, t.
HostMappingTokens(s) ==
  { SubSeq(s, j + 1, Len(s)) : j \in
      { j \in 1..(Len(s) - 1) :
          /\ \A k \in (j + 1)..Len(s) : ~IsSpace(Ch(s, k))
          /\ \E i \in 1..(j - 1) :
               /\ IsDottedQuad(SubSeq(s, 1, i))
               /\ \A k \in (i + 1)..j : IsSpace(Ch(s, k)) } }

\* The tokens t for which s is ||t^ or ||t^$options.
BlockRuleTokens(s) ==
  { SubSeq(s, 3, k - 1) : k \in
      { k \in 4..Len(s) : /\ SubSeq(s, 1, 2) = "||"
                          /\ Ch(s, k) = "^"
                          /\ (k = Len(s) \/ Ch(s, k + 1) = "$") } }

\* The line without its inline comment, trimmed.
Uncommented(t) ==
  Trim(IF \E i \in 1..Len(t) : Ch(t, i) \in {"#", "!"}
       THEN SubSeq(t, 1, (CHOOSE i \in 1..Len(t) :
                            /\ Ch(t, i) \in {"#", "!"}
                            /\ \A j \in 1..(i - 1) : Ch(t, j) \notin {"#", "!"}) - 1)
       ELSE t)

\* What the forms, tried in their order, give for the line.
ExpectedCandidate(line) ==
  LET Forms(s, host, block) ==
        IF host # {} THEN CHOOSE t \in host : TRUE
        ELSE IF block # {}
        THEN CHOOSE t \in block : \A u \in block : Len(t) <= Len(u)
        ELSE IF \A i \in 1..Len(s) : Ch(s, i) \notin {" ", "/", "?"} THEN s
        ELSE None
      Body(s) == Forms(s, HostMappingTokens(s), BlockRuleTokens(s))
      Trimmed(t) == IF t = "" \/ SubSeq(t, 1, 1) \in {"#", "!"} THEN None
                    ELSE Body(Uncommented(t))
  IN Trimmed(Trim(line))

\* C11: extract_domain_from_line returns none for a line that, trimmed, is
\* empty or starts with '#' or '!'; otherwise, for the line without its
\* inline comment and trimmed, the token of the host-mapping form (an IPv4
\* address of four groups of one to three digits, whitespace, one token) if
\* the line has it, else the token of the block-rule form ||token^ with
\* optional $options, else the whole line if it holds no space, '/' or '?',
\* else none.
C11_ExtractByPriority ==
  (fc.pc = "returned" /\ fc.op = "extract_domain_from_line") =>
    /\ Cardinality(HostMappingTokens(Uncommented(Trim(fc.arg)))) <= 1
    /\ Unwrap(fc.out) = ExpectedCandidate(fc.arg)
    /\ fc.arg \in {"0.0.0.0 ads.example.com", "||ads.example.com^$third-party",
                    "ads.example.com # note"}
         => Unwrap(fc.out) = "ads.example.com"
    /\ fc.arg = "not a domain" => Unwrap(fc.out) = None

C11_Witness ==
  /\ fc.pc = "returned"
  /\ fc.arg = "\t0.0.0.0 ||x.com^ ! x # y"
  /\ Unwrap(fc.out) = "||x.com^"

\* The rules of validate_domain that reject a string whatever its labels.
EndsInDotLocal(d) == Len(d) >= 6 /\ SubSeq(d, Len(d) - 5, Len(d)) = ".local"
RejectedByRule(d) == d = "" \/ d = "localhost" \/ EndsInDotLocal(d) \/ Len(d) > 253

\* C12: validate_domain returns false for the empty string, for localhost,
\* for every string ending in .local, for every string of more than 253
\* characters and for every string starting with '-'.
C12_ValidateRejects ==
  (fc.pc = "returned" /\ fc.op = "validate_domain"
     /\ (RejectedByRule(fc.arg) \/ SubSeq(fc.arg, 1, 1) = "-"))
  => Unwrap(fc.out) = FALSE

C12_Witness ==
  /\ fc.pc = "returned" /\ fc.op = "validate_domain"
  /\ Len(fc.arg) = 254
  /\ SubSeq(fc.arg, 1, 1) = "a"
  /\ \A i \in 1..Len(fc.arg) : SubSeq(fc.arg, i, i) \in {"a", "b", "."}
  /\ \E i \in 1..Len(fc.arg) : SubSeq(fc.arg, i, i) = "."
  /\ Unwrap(fc.out) = FALSE

\* A label of lo to 63 characters that starts and ends with an alphanumeric
\* character and holds only alphanumerics and hyphens.
WellFormedLabel(l, lo) ==
  /\ Len(l) >= lo /\ Len(l) <= 63
  /\ IsAlnum(SubSeq(l, 1, 1))
  /\ IsAlnum(SubSeq(l, Len(l), Len(l)))
  /\ \A i \in 1..Len(l) : IsAlnum(SubSeq(l, i, i)) \/ SubSeq(l, i, i) = "-"

\* The string without one leading "*." marker.
Unmarked(d) == IF Len(d) >= 2 /\ SubSeq(d, 1, 2) = "*." THEN SubSeq(d, 3, Len(d)) ELSE d

\* At least `least` dot-separated labels, each well formed, the final one
\* of at least `final_lo` characters.
LabelSyntax(d, least, final_lo) ==
  LET Of(labels) ==
        /\ Len(labels) >= least
        /\ \A i \in 1..(Len(labels) - 1) : WellFormedLabel(labels[i], 1)
        /\ WellFormedLabel(labels[Len(labels)], final_lo)
  IN Of(Split(d, "."))

\* C13 as the claim states it: a string the rules do not reject is valid
\* exactly when, one leading "*." stripped, it is one or more labels of 1 to
\* 63 characters, the final label included.
C13_AsStated ==
  (fc.pc = "returned" /\ fc.op = "validate_domain" /\ ~RejectedByRule(fc.arg))
  => (Unwrap(fc.out) <=> LabelSyntax(Unmarked(fc.arg), 1, 1))

\* C13: a string the rules do not reject is valid exactly when, one leading
\* "*." stripped, it is two or more dot-separated labels, each starting and
\* ending with an alphanumeric character and holding only alphanumerics and
\* hyphens, each label before the last of 1 to 63 characters and the last
\* label of 2 to 63 characters.
C13_LabelSyntax ==
  (fc.pc = "returned" /\ fc.op = "validate_domain" /\ ~RejectedByRule(fc.arg))
  => (Unwrap(fc.out) <=> LabelSyntax(Unmarked(fc.arg), 2, 2))

C13_Witness ==
  /\ fc.pc = "returned" /\ fc.op = "validate_domain"
  /\ Len(fc.arg) = 253
  /\ SubSeq(fc.arg, 1, 2) = "*."
  /\ Unwrap(fc.out) = TRUE

(***************************************************************************)
(* run: canonical domains                                                  *)
(***************************************************************************)
\* C14: at every point of a run every string of every category set is a
\* canonical domain: it holds no upper-case letter, has no trailing dot and
\* passes validate_domain.
C14_CategoryDomainsCanonical ==
  \A c \in DOMAIN category_domains :
    \A d \in category_domains[c] :
      /\ \A i \in 1..Len(d) : SubSeq(d, i, i) \notin UpperChars
      /\ d # "" /\ SubSeq(d, Len(d), Len(d)) # "."
      /\ validate_domain(d)

(***************************************************************************)
(* WhitelistManager::load: rules that fail to compile                      *)
(***************************************************************************)
\* The rule a whitelist line holds: the text before its first '#', trimmed.
RuleText(raw) ==
  LET Before(p) == Trim(IF p = 0 THEN raw ELSE SubSeq(raw, 1, p - 1))
  IN Before(FindFirst(raw, {"#"}))

IsRegexRule(r) == Len(r) > 2 /\ Ch(r, 1) = "/" /\ Ch(r, Len(r)) = "/"
IsPatternRule(r) == IsRegexRule(r) \/ Contains(r, "*")
RulePattern(r) == IF IsRegexRule(r) THEN SubSeq(r, 2, Len(r) - 1) ELSE WildcardToRegex(r)

\* A regex or wildcard rule that fails to compile.
FailsToCompile(raw) ==
  IsPatternRule(RuleText(raw)) /\ ~RegexNew(RulePattern(RuleText(raw))).ok

\* What the rule of one line, taken by itself, removes: a pattern rule that
\* compiles removes the domains it matches, an exact rule that validates
\* removes its domain and, with subdomain matching, the names below it.
RuleRemoves(raw, enable_subdomain, d) ==
  LET Pattern(re) == re.ok /\ RegexIsMatch(re.toks, d)
      Exact(e) == /\ validate_domain(e)
                  /\ \/ d = e
                     \/ enable_subdomain /\ EndsWith(d, "." \o e)
      Rule(r) == IF r = "" THEN FALSE
                 ELSE IF IsPatternRule(r) THEN Pattern(RegexNew(RulePattern(r)))
                 ELSE Exact(normalize_domain(r))
  IN Rule(RuleText(raw))

\* C15: when the whitelist source holds a regex or wildcard rule that fails
\* to compile, that rule alone is skipped: filter_domains removes exactly
\* the domains that some other rule of the source (exact, wildcard or
\* regex, before or after the bad line) removes by itself.
C15_BadRuleSkippedAlone ==
  (/\ fd.pc = "returned"
   /\ IsSome(fd.source)
   /\ \E k \in 1..Len(Unwrap(fd.source)) : FailsToCompile(Unwrap(fd.source)[k])) =>
    \A d \in fd.domains :
      d \notin fd.filtered <=>
        \E k \in 1..Len(Unwrap(fd.source)) :
          RuleRemoves(Unwrap(fd.source)[k], fd.wl.enable_subdomain, d)

\* The same for the sources whose compiling fragments name no capture
\* group twice.
C15_DistinctGroupNames ==
  (/\ fd.pc = "returned"
   /\ IsSome(fd.source)
   /\ \E k \in 1..Len(Unwrap(fd.source)) : FailsToCompile(Unwrap(fd.source)[k])
   /\ \A j, k \in 1..Len(Unwrap(fd.source)) :
        (j < k /\ ~FailsToCompile(Unwrap(fd.source)[j])
               /\ ~FailsToCompile(Unwrap(fd.source)[k])
               /\ IsPatternRule(RuleText(Unwrap(fd.source)[j]))
               /\ IsPatternRule(RuleText(Unwrap(fd.source)[k])))
        => GroupNames(RegexNew(RulePattern(RuleText(Unwrap(fd.source)[j]))).toks)
             \cap GroupNames(RegexNew(RulePattern(RuleText(Unwrap(fd.source)[k]))).toks) = {}) =>
    \A d \in fd.domains :
      d \notin fd.filtered <=>
        \E k \in 1..Len(Unwrap(fd.source)) :
          RuleRemoves(Unwrap(fd.source)[k], fd.wl.enable_subdomain, d)

(***************************************************************************)
(* create_production_lists: a write that fails                             *)
(***************************************************************************)
\* The output files create_production_lists has to write: the master file
\* and the file of every category that holds a domain.
OutputFiles ==
  {"all_domains.txt"}
    \cup {c \o ".txt" : c \in {k \in DOMAIN category_domains : category_domains[k] # {}}}

\* C16: when the write of one output file (the master file or a category
\* file) fails, the writing of every other output file is still attempted:
\* at the end of a run in which one write failed, at most one output file
\* is missing.
C16_OtherFilesStillWritten ==
  (pc = "done" /\ run_result = ErrCreateProductionLists) =>
    Cardinality(OutputFiles \ {f.name : f \in prod_written}) <= 1

(***************************************************************************)
(* the validator store                                                     *)
(***************************************************************************)
\* The store after a write for the list `name`: every other entry as it
\* was, the entry of `name` holding the validators of the result dr.
C17_OneEntryWritten(name, dr) ==
  /\ DOMAIN progress' = DOMAIN progress \cup {name}
  /\ \A n \in DOMAIN progress : n # name => progress'[n] = progress[n]
  /\ progress'[name].etag = dr.etag
  /\ progress'[name].last_modified = dr.last_modified

C17_Step ==
  IF runs' # runs
  THEN \* the start of a run: the store is read, no fetch has begun
       /\ progress' = progress_file /\ progress_file' = progress_file
       /\ \A i \in DOMAIN calls' : calls'[i] = PendingCall
  ELSE IF pc = "merge" /\ pos' # pos /\ results[pos].result.kind = "Ok"
                       /\ results[pos].result.was_modified
  THEN \* the outcome Success: one write, of one entry, then saved
       /\ C17_OneEntryWritten(results[pos].bl.name, results[pos].result)
       /\ progress_file' \in {progress', progress_file}
  ELSE progress' = progress /\ progress_file' = progress_file

\* C17: the validator store is read once, at the start of a run and before
\* any fetch begins; a descriptor whose outcome is Success writes it once,
\* changing only the entry keyed by the name of its list (and saving the
\* store); a descriptor whose outcome is NotModified or Failed, and every
\* other step of a run, leaves the whole store as it was.
C17_StoreWrittenPerSuccess == [][C17_Step]_vars

C17_Witness ==
  /\ runs = 2 /\ pc = "merge" /\ pos = 3 /\ faults = 0
  /\ results[1].bl.name = "L1" /\ results[1].result.kind = "Ok"
  /\ ~results[1].result.was_modified
  /\ results[2].bl.name = "L2" /\ results[2].result.kind = "Ok"
  /\ results[2].result.was_modified
  /\ DOMAIN progress = {"L1", "L2"}
  /\ progress["L1"].last_download = 1
  /\ progress["L2"].last_download = 2
  /\ progress_file = progress

(***************************************************************************)
(* download: the backoff delays                                            *)
(***************************************************************************)
C18_Delays ==
  /\ Len(dl.delays) <= 3
  /\ \A k \in 1..Len(dl.delays) : dl.delays[k] = <<500, 1000, 2000>>[k]
  /\ dl.pc \in {"send", "sleep"} => Len(dl.delays) = dl.requests
  /\ dl.pc = "returned" => Len(dl.delays) = dl.requests - 1

\* C18: download takes a delay before each retry and only then: the delay
\* before the k-th retry is 500 ms doubled k-1 times (500, 1000, 2000), so
\* that a call that has made n requests and is to make another has taken n
\* delays (none before the first attempt), and a call that has returned
\* after n requests has taken n-1: the step that returns Success,
\* NotModified or Failed, the budget-exhausting failure included, takes none.
C18_BackoffBeforeRetryOnly ==
  []C18_Delays /\ [][dl'.pc = "returned" => dl'.delays = dl.delays]_vars

C18_Witness ==
  /\ dl.pc = "returned"
  /\ dl.result.kind = "Err"
  /\ dl.requests = MAX_RETRIES + 1
  /\ dl.delays = <<500, 1000, 2000>>

(***************************************************************************)
(* run(): the fetch stage and the merge stage                              *)
(***************************************************************************)
\* The downloads that have begun and have not returned.
C19_Begun == {i \in DOMAIN calls : calls[i].pc \notin {"pending", "returned"}}

C19_Stages ==
  /\ config.threads \in 1..16
  /\ pc = "fetch" => Cardinality(C19_Begun) <= config.threads
  /\ pc = "merge" => /\ Len(results) = Len(blocklists)
                     /\ \A i \in DOMAIN calls : calls[i].pc = "returned"

\* C19: during the fetch stage the fetches in flight never exceed the
\* configured thread count clamped to 1..16; the merge stage begins only
\* when the outcome of every descriptor has been collected; and a step taken
\* while a fetch is pending or in flight changes no category set, no
\* persisted list file and no entry of the validator store.
C19_BoundedFetchThenMerge ==
  /\ []C19_Stages
  /\ [][(pc = "fetch" /\ \E i \in DOMAIN calls : calls[i].pc # "returned")
          => UNCHANGED <<category_domains, list_files, raw_written, progress,
                         progress_file>>]_vars

C19_Witness ==
  /\ pc = "fetch"
  /\ config.threads = 1
  /\ Len(blocklists) = 2
  /\ calls[1].pc = "sleep"
  /\ calls[2].pc = "pending"

(***************************************************************************)
(* run(): the order in which the fetches complete                          *)
(***************************************************************************)
\* What the merge of the results of the first k descriptors, taken in the
\* order of the configuration file, leaves in a first run (empty store, no
\* list file): the category sets, the list files and the validators.
RECURSIVE C20_Merged(_)
C20_Merged(k) ==
  LET Add(prev, bl, dr, domains) ==
        [cd |-> ExtendCategory(prev.cd, bl.category, domains),
         files |-> MapInsert(prev.files, ListPath(bl), BlocklistFileLines(domains, None)),
         store |-> MapInsert(prev.store, bl.name, <<dr.etag, dr.last_modified>>)]
      Step(prev, bl, dr) ==
        IF dr.kind = "Ok" /\ dr.was_modified
        THEN Add(prev, bl, dr, process_content(Unwrap(dr.content)))
        ELSE prev
  IN IF k = 0 THEN [cd |-> <<>>, files |-> <<>>, store |-> <<>>]
     ELSE Step(C20_Merged(k - 1), blocklists[k], calls[k].result)

C20_SameAsInOrder ==
  LET Same(m) ==
        /\ category_domains = m.cd
        /\ list_files = m.files
        /\ [n \in DOMAIN progress |-> <<progress[n].etag, progress[n].last_modified>>]
             = m.store
  IN Same(C20_Merged(Len(blocklists)))

\* C20: with the response to every descriptor fixed, the result of a run
\* does not depend on the order in which the fetches complete: when the
\* merge of a first run without I/O faults has ended, the category sets,
\* the list files and the validators of the store are those of the merge of
\* the same outcomes in the order of the descriptors.
C20_CompletionOrderIrrelevant ==
  (runs = 1 /\ faults = 0 /\ pc = "merge" /\ pos > Len(results)) => C20_SameAsInOrder

\* The same for the descriptor lists in which no name occurs twice.
C20_DistinctNames ==
  (/\ runs = 1 /\ faults = 0 /\ pc = "merge" /\ pos > Len(results)
   /\ \A i, j \in DOMAIN blocklists : blocklists[i].name = blocklists[j].name => i = j)
    => C20_SameAsInOrder

====
